---- MODULE Spec2Model ----
(***************************************************************************)
(* A model of bun2nix: the identifier resolver, the lockfile package       *)
(* visitor, the prefetch and cache engine and the expression generator.    *)
(* Strings are sequences of one-character strings, so that split_once,     *)
(* contains, len and format! are computed and not assumed.                 *)
(***************************************************************************)
EXTENDS Integers, Sequences, FiniteSets, TLC

VARIABLES
    \* Identifier::to_url
    identifier,     \* the Identifier handed to to_url
    url_result,     \* the Result<String> of to_url, NoCall before the call
    \* PackageVisitor::visit_map
    doc,            \* the entries of the lockfile's packages map, in document order
    pos,            \* index of the entry next_entry yields next
    parsed,         \* the packages Vec
    parse_result,   \* Running, or what visit_map returned, or a panic
    \* Lockfile::prefetch_packages and fetch_uncached_packages
    lockfile,       \* self.packages: the entries (key, package) of the run
    cache_location, \* whether a cache location was given
    pc,             \* where the run is
    table,          \* the rows of the persistent packages table
    temp_packages,  \* the names in the TEMP table temp_packages
    packages,       \* the HashSet<Package>, then the items stream::iter still holds
    cached,         \* the Vec read from the cache
    in_progress,    \* the futures buffer_unordered holds
    pkgs,           \* the Vec try_collect has collected
    result,         \* what prefetch_packages returned
    table0,         \* (history) the packages table when the run started
    fetched,        \* (history) the names whose fetch was started in the run
    failures,       \* (history) the failures the futures of the run returned
    \* fetch_uncached_packages over a large batch, its futures counted
    stream_len,     \* the packages stream::iter still holds
    queue_new,      \* the futures pushed and not yet polled
    queue_fetching, \* the futures whose fetch has started and not completed
    collected,      \* the length of the Vec try_collect has collected
    batch_result,   \* "running", or "ok" or "err" once try_collect returned
    \* dump_nix_expression
    vec_a,          \* a Vec<PrefetchedPackage>
    vec_b,          \* the same packages in a second order
    out_a,          \* the expression rendered from vec_a
    out_b,          \* the expression rendered from vec_b
    \* Package<Extracted>::normalize
    extracted,      \* the Package<Extracted> that normalize consumes
    norm_result,    \* the Result<Package<Normalized>>, NotNormalized before the call
    \* impl FromStr for Lockfile
    lockfile_text,  \* the lockfile text, as the pieces the JSONC parser reads
    from_str_result \* the Result<Lockfile>, NotParsed before the call

url_vars == <<identifier, url_result>>
parse_vars == <<doc, pos, parsed, parse_result>>
engine_vars == <<lockfile, cache_location, pc, table, temp_packages, packages,
                 cached, in_progress, pkgs, result, table0, fetched, failures>>
batch_vars == <<stream_len, queue_new, queue_fetching, collected, batch_result>>
render_vars == <<vec_a, vec_b, out_a, out_b>>
norm_vars == <<extracted, norm_result>>
text_vars == <<lockfile_text, from_str_result>>
vars == <<url_vars, parse_vars, engine_vars, batch_vars, render_vars, norm_vars, text_vars>>

----------------------------------------------------------------------------
(* Bounds *)

\* longest identifier string drawn as an input of the resolver
MaxLen == 6

\* most entries in the packages map of a lockfile handed to the visitor
MaxEntries == 2

\* longest array of a packages entry
MaxArity == 5

\* most packages of a batch beyond the ceiling of concurrent fetches
MaxOverCeiling == 2

\* most packages in a Vec handed to the expression generator
MaxRendered == 3

\* longest identifier string of a package handed to normalize
MaxSpecLen == 3

\* most pieces of a lockfile text handed to from_str
MaxTextLen == 3

----------------------------------------------------------------------------
(* Strings *)

Chars == {"a", "b", "@", "/"}

RECURSIVE StringsOfLen(_)
StringsOfLen(n) ==
    IF n = 0 THEN {<<>>}
    ELSE {Append(s, c) : s \in StringsOfLen(n - 1), c \in Chars}

StringsUpTo(n) == UNION {StringsOfLen(k) : k \in 0..n}

\* index of the first occurrence of the character c in s, 0 when there is none
FirstIdx(s, c) ==
    IF \E i \in 1..Len(s) : s[i] = c
    THEN CHOOSE i \in 1..Len(s) : s[i] = c /\ \A j \in 1..(i - 1) : s[j] # c
    ELSE 0

\* str::split_once(c): None, or Some((before, after)) around the first c
split_once(s, c) ==
    LET i == FirstIdx(s, c)
    IN  IF i = 0
        THEN [some |-> FALSE, before |-> <<>>, after |-> <<>>]
        ELSE [some |-> TRUE,
              before |-> SubSeq(s, 1, i - 1),
              after |-> SubSeq(s, i + 1, Len(s))]

\* str::contains(pat)
contains(s, pat) ==
    \E i \in 0..(Len(s) - Len(pat)) : SubSeq(s, i + 1, i + Len(pat)) = pat

HasChar(s, c) == \E i \in 1..Len(s) : s[i] = c

----------------------------------------------------------------------------
(* Results and errors *)

Ok(v) == [ok |-> TRUE, val |-> v, err |-> "None"]
Err(e) == [ok |-> FALSE, val |-> <<>>, err |-> e]
NoCall == [ok |-> FALSE, val |-> <<>>, err |-> "NoCall"]

NoAtInPackageIdentifier == "NoAtInPackageIdentifier"

----------------------------------------------------------------------------
(* Identifier resolver *)

Variants == {"Npm", "Workspace", "Git", "Tarball"}

Registry == <<"h", "t", "t", "p", "s", ":", "/", "/", "r", "e", "g", "i", "s",
              "t", "r", "y", ".", "n", "p", "m", "j", "s", ".", "o", "r", "g", "/">>
Tgz == <<".", "t", "g", "z">>

\* format!("https://registry.npmjs.org/{}/-/{}-{}.tgz", name, name, ver)
FormatUnscoped(name, ver) ==
    Registry \o name \o <<"/", "-", "/">> \o name \o <<"-">> \o ver \o Tgz

\* format!("https://registry.npmjs.org/{}/{}/-/{}-{}.tgz", user, name, name, ver)
FormatScoped(user, name, ver) ==
    Registry \o user \o <<"/">> \o name \o <<"/", "-", "/">> \o name
        \o <<"-">> \o ver \o Tgz

to_npm_url(npm_identifier) ==
    LET slash == split_once(npm_identifier, "/")
    IN  IF ~slash.some
        THEN LET at == split_once(npm_identifier, "@")
             IN  IF ~at.some
                 THEN Err(NoAtInPackageIdentifier)
                 ELSE Ok(FormatUnscoped(at.before, at.after))
        ELSE LET at == split_once(slash.after, "@")
             IN  IF ~at.some
                 THEN Err(NoAtInPackageIdentifier)
                 ELSE Ok(FormatScoped(slash.before, at.before, at.after))

\* the split taken at the last '@' instead of the first
to_http_url_rsplit(id) ==
    IF ~HasChar(id, "@")
    THEN Err(NoAtInPackageIdentifier)
    ELSE LET i == CHOOSE k \in 1..Len(id) :
                      id[k] = "@" /\ \A j \in (k + 1)..Len(id) : id[j] # "@"
         IN  Ok(SubSeq(id, i + 1, Len(id)))

to_http_url(id) ==
    LET at == split_once(id, "@")
    IN  IF ~at.some THEN Err(NoAtInPackageIdentifier) ELSE Ok(at.after)

to_url(id) ==
    IF id.variant = "Npm" THEN to_npm_url(id.spec) ELSE to_http_url(id.spec)

NoIdentifier == [variant |-> "Npm", spec |-> <<>>]

UrlIdle == identifier = NoIdentifier /\ url_result = NoCall

----------------------------------------------------------------------------
(* Lockfile deserializer: PackageVisitor *)

\* serde_json::Value, as far as the visitor inspects it
JStr(s) == [kind |-> "string", str |-> s]
JObj == [kind |-> "object", str |-> <<>>]

WorkspaceStr == <<"w", "o", "r", "k", "s", "p", "a", "c", "e", ":", "a">>
Sha512Str == <<"s", "h", "a", "5", "1", "2", "-", "a">>
PlainStr == <<"a", "@", "b">>

WorkspaceMarker == <<"w", "o", "r", "k", "s", "p", "a", "c", "e", ":">>
Sha512Marker == <<"s", "h", "a", "5", "1", "2", "-">>

BinNone == "None"
BinUnnamed == "Unnamed"

PackageNames == {"foo", "bar"}

\* the ways the array of an entry is filled
Patterns == {"lockfile", "unmarked", "strings", "objects"}

\* the i-th value of an array of length n filled after pattern pat:
\* "lockfile" is what bun writes for that length, "unmarked" the same without
\* the workspace: and sha512- markers, the others hold one kind of value only
PatternValue(pat, n, i) ==
    CASE pat = "strings" -> JStr(PlainStr)
      [] pat = "objects" -> JObj
      [] pat = "unmarked" ->
            IF (n = 2 /\ i = 2) \/ (n = 3 /\ i = 2) \/ (n = 4 /\ i = 3)
            THEN JObj ELSE JStr(PlainStr)
      [] OTHER ->
            IF n = 1 THEN JStr(WorkspaceStr)
            ELSE IF (n = 2 /\ i = 2) \/ (n = 3 /\ i = 2) \/ (n = 4 /\ i = 3)
            THEN JObj
            ELSE IF n = 4 /\ i = 4 THEN JStr(Sha512Str)
            ELSE IF n = 4 /\ i = 2 THEN JStr(<<>>)
            ELSE JStr(PlainStr)

ValueArrays ==
    {[i \in 1..n |-> PatternValue(pat, n, i)] : n \in 0..MaxArity, pat \in Patterns}

\* an entry of the map: its key and its value, an array or something else
Entries ==
    [name : PackageNames, is_array : {TRUE}, values : ValueArrays]
        \cup [name : PackageNames, is_array : {FALSE}, values : {<<>>}]

SeqsUpTo(S, n) == UNION {[1..k -> S] : k \in 0..n}

None == [some |-> FALSE, str |-> <<>>]
Some(s) == [some |-> TRUE, str |-> s]

\* Package::new(name, identifier, hash, binaries)
Package_new(name, id, hash, binaries) ==
    [name |-> name, identifier |-> id, hash |-> hash, binaries |-> binaries]

\* what one deserialize_*_package call does: push a package, return an
\* error, or panic on a failed assert!
Pushed(pkg) == [status |-> "ok", pkg |-> <<pkg>>, msg |-> "None", key |-> "None"]
Failed(msg) == [status |-> "err", pkg |-> <<>>, msg |-> msg, key |-> "None"]
FailedFor(msg, key) == [status |-> "err", pkg |-> <<>>, msg |-> msg, key |-> key]
Panic(msg) == [status |-> "panic", pkg |-> <<>>, msg |-> msg, key |-> "None"]

\* serde_json::from_str::<MetaData>(&value.to_string())
MetaDataOk(value) == value.kind = "object"

deserialize_tarball_package(name, values) ==
    IF values[1].kind # "string" THEN Failed("Invalid tarball identifer format")
    ELSE IF ~MetaDataOk(values[2]) THEN Failed("Invalid metadata format")
    ELSE Pushed(Package_new(name, [variant |-> "Tarball", spec |-> values[1].str],
                            None, BinNone))

deserialize_workspace_package(name, values) ==
    IF values[1].kind # "string" THEN Failed("Invalid workspace identifer format")
    ELSE IF ~contains(values[1].str, WorkspaceMarker)
    THEN Panic("Expected workspace package to contain workspace:")
    ELSE Pushed(Package_new(name, [variant |-> "Workspace", spec |-> values[1].str],
                            None, BinNone))

deserialize_npm_package(name, values) ==
    IF values[1].kind # "string" THEN Failed("Invalid npm identifier format")
    ELSE IF ~MetaDataOk(values[3]) THEN Failed("Invalid metadata format")
    ELSE IF values[4].kind # "string" THEN Failed("Invalid hash format")
    ELSE IF ~contains(values[4].str, Sha512Marker)
    THEN Panic("Expected hash to be in sri format and contain sha512")
    ELSE Pushed(Package_new(name, [variant |-> "Npm", spec |-> values[1].str],
                            Some(values[4].str), BinNone))

deserialize_git_package(name, values) ==
    IF values[1].kind # "string" THEN Failed("Invalid git identifer format")
    ELSE IF ~MetaDataOk(values[2]) THEN Failed("Invalid metadata format")
    ELSE IF values[3].kind # "string" THEN Failed("Invalid rev format")
    ELSE Pushed(Package_new(name, [variant |-> "Git", spec |-> values[1].str],
                            Some(values[3].str), BinNone))

InvalidPackageEntry == "Invalid package entry for {}: expected at least 4 values"

\* the match on values.len() with every array of 4 and more values taken as npm
visit_entry_at_least_4(name, values) ==
    CASE Len(values) = 1 -> deserialize_workspace_package(name, values)
      [] Len(values) = 2 -> deserialize_tarball_package(name, values)
      [] Len(values) = 3 -> deserialize_git_package(name, values)
      [] Len(values) >= 4 -> deserialize_npm_package(name, values)
      [] OTHER -> FailedFor(InvalidPackageEntry, name)

\* the body of visit_map's loop: the match on values.len()
visit_entry(name, values) ==
    CASE Len(values) = 1 -> deserialize_workspace_package(name, values)
      [] Len(values) = 2 -> deserialize_tarball_package(name, values)
      [] Len(values) = 3 -> deserialize_git_package(name, values)
      [] Len(values) = 4 -> deserialize_npm_package(name, values)
      [] OTHER -> FailedFor(InvalidPackageEntry, name)

Running == [status |-> "running", msg |-> "None", key |-> "None"]
Returned(r) == [status |-> r.status, msg |-> r.msg, key |-> r.key]
ReturnedOk == [status |-> "ok", msg |-> "None", key |-> "None"]
NotParsing == [status |-> "idle", msg |-> "None", key |-> "None"]

ParseIdle == doc = <<>> /\ pos = 0 /\ parsed = <<>> /\ parse_result = NotParsing

----------------------------------------------------------------------------
(* Prefetch and cache engine: Lockfile::prefetch_packages *)

CONCURRENT_FETCH_REQUESTS == 100

\* Package.0 of the entries of a run: two npm identifiers and one without '@'
EngineIds == {<<"a", "@", "a">>, <<"b", "@", "a">>, <<"a">>}

Bins == {BinNone, BinUnnamed}

\* an entry of self.packages: its key, and the fields of Package read by the
\* engine (.0 and .2.bin)
LockfileEntries == [key : PackageNames, id : EngineIds, bin : Bins]

\* HashMap<String, Package>: at most one entry per key
Lockfiles ==
    {L \in SUBSET LockfileEntries :
        \A e1, e2 \in L : e1.key = e2.key => e1 = e2}

\* a hash as nix prints it, one that is too short, and one of the right length
\* that is no sha256 hash
Sha256Prefix == <<"s", "h", "a", "2", "5", "6", "-">>
Sha256Word == <<"s", "h", "a", "2", "5", "6">>
HashLen == 51
GoodHash == Sha256Prefix \o [i \in 1..44 |-> "A"]
ShortHash == Sha256Prefix \o <<"A">>
Hashes == {GoodHash, ShortHash}

\* the derived equality, over every field
Package_eq_all_fields(p, q) == p = q

\* impl PartialEq for Package (lockfile.rs): self.0 == other.0
Package_eq(p, q) == p.id = q.id

\* self.packages.into_values().collect::<HashSet<_>>(): one package is kept
\* for every class of equal packages, whichever the iteration yields first
HashSets(L) ==
    LET values == {[id |-> e.id, bin |-> e.bin] : e \in L}
    IN  {S \in SUBSET values :
            /\ \A v \in values : \E p \in S : Package_eq(p, v)
            /\ \A p, q \in S : Package_eq(p, q) => p = q}

\* Package::to_npm_url (lockfile.rs): the same conversion on self.0
Package_to_npm_url(p) == to_npm_url(p.id)

\* the orders a query may return a set of rows in
RECURSIVE Orders(_)
Orders(S) ==
    IF S = {} THEN {<<>>}
    ELSE UNION {{<<x>> \o q : q \in Orders(S \ {x})} : x \in S}

Range(q) == {q[i] : i \in 1..Len(q)}

\* SELECT p.name, p.url, p.hash, p.binaries FROM packages p
\* INNER JOIN temp_packages t ON p.name = t.name
select_cached(tbl, temp) == {r \in tbl : r.name \in temp}

\* SELECT DISTINCT t.name FROM temp_packages t
\* LEFT JOIN packages p ON t.name = p.name WHERE p.name IS NULL
select_uncached_names(tbl, temp) ==
    {n \in temp : ~\E r \in tbl : r.name = n}

\* no package is dropped from the set
retain_all(pkgset, uncached_names) == pkgset

\* packages.retain(|pkg| uncached_names.contains(&pkg.0))
retain(pkgset, uncached_names) == {p \in pkgset : p.id \in uncached_names}

\* PrefetchedPackage, and a row of the packages table
Prefetched(name, url, hash, binaries) ==
    [name |-> name, url |-> url, hash |-> hash, binaries |-> binaries]

ResultNone == [status |-> "none", list |-> <<>>, err |-> "None"]
ResultOk(list) == [status |-> "ok", list |-> list, err |-> "None"]
ResultErr(e) == [status |-> "err", list |-> <<>>, err |-> e]

Future(p) == [pkg |-> p, state |-> "new", url |-> <<>>]

EngineIdle ==
    /\ lockfile = {} /\ cache_location = FALSE /\ pc = "idle" /\ table = {}
    /\ temp_packages = {} /\ packages = {} /\ cached = <<>> /\ in_progress = {}
    /\ pkgs = <<>> /\ result = ResultNone /\ table0 = {} /\ fetched = {}
    /\ failures = <<>>

BatchIdle ==
    /\ stream_len = 0 /\ queue_new = 0 /\ queue_fetching = 0 /\ collected = 0
    /\ batch_result = "idle"

NotRendered == [status |-> "none", text |-> <<>>]

RenderIdle ==
    vec_a = <<>> /\ vec_b = <<>> /\ out_a = NotRendered /\ out_b = NotRendered

NotNormalized == [ok |-> FALSE, err |-> "NotNormalized", pkg |-> <<>>]

NoPackage ==
    [name |-> "foo", identifier |-> NoIdentifier, hash |-> None, binaries |-> BinNone]

NormIdle == extracted = NoPackage /\ norm_result = NotNormalized

NotParsed == [ok |-> FALSE, err |-> "NotParsed", lockfile_version |-> 0]

TextIdle == lockfile_text = <<>> /\ from_str_result = NotParsed

Init ==
    /\ EngineIdle /\ UrlIdle /\ ParseIdle /\ BatchIdle /\ RenderIdle
    /\ NormIdle /\ TextIdle

\* prefetch_packages is entered: the packages are collected into the HashSet
\* and the cache location is matched
Start ==
    /\ pc = "idle"
    /\ \E L \in Lockfiles, loc \in BOOLEAN :
          /\ lockfile' = L
          /\ cache_location' = loc
          /\ packages' \in HashSets(L)
          /\ pc' = IF loc THEN "connect" ELSE "fetch"
    /\ temp_packages' = {} /\ cached' = <<>> /\ in_progress' = {}
    /\ pkgs' = <<>> /\ result' = ResultNone
    /\ table0' = table /\ fetched' = {} /\ failures' = <<>>
    /\ UNCHANGED <<table, url_vars, parse_vars, batch_vars, render_vars, norm_vars, text_vars>>

\* connect_and_migrate(loc).await succeeds
Connect ==
    /\ pc = "connect"
    /\ pc' = "create_temp"
    /\ UNCHANGED <<lockfile, cache_location, table, temp_packages, packages,
                   cached, in_progress, pkgs, result, table0, fetched, failures,
                   url_vars, parse_vars, batch_vars, render_vars, norm_vars, text_vars>>

\* create_temp_pkg_list_db(&packages, &mut cache).await succeeds
CreateTemp ==
    /\ pc = "create_temp"
    /\ temp_packages' = {p.id : p \in packages}
    /\ pc' = "select_cached"
    /\ UNCHANGED <<lockfile, cache_location, table, packages, cached,
                   in_progress, pkgs, result, table0, fetched, failures,
                   url_vars, parse_vars, batch_vars, render_vars, norm_vars, text_vars>>

\* the first query: the rows of the candidates, in the order sqlite yields them
SelectCached ==
    /\ pc = "select_cached"
    /\ cached' \in Orders(select_cached(table, temp_packages))
    /\ pc' = "select_uncached"
    /\ UNCHANGED <<lockfile, cache_location, table, temp_packages, packages,
                   in_progress, pkgs, result, table0, fetched, failures,
                   url_vars, parse_vars, batch_vars, render_vars, norm_vars, text_vars>>

\* the second query, packages.retain, and the return when nothing is left
SelectUncached ==
    /\ pc = "select_uncached"
    /\ LET uncached_names == select_uncached_names(table, temp_packages)
           kept == retain(packages, uncached_names)
       IN  /\ packages' = kept
           /\ IF kept = {}
              THEN pc' = "done" /\ result' = ResultOk(cached)
              ELSE pc' = "fetch" /\ UNCHANGED result
    /\ UNCHANGED <<lockfile, cache_location, table, temp_packages, cached,
                   in_progress, pkgs, table0, fetched, failures,
                   url_vars, parse_vars, batch_vars, render_vars, norm_vars, text_vars>>

\* a cache call returns an error and the ? returns it
CacheCallFails ==
    /\ pc \in {"connect", "create_temp", "select_cached", "select_uncached",
               "insert"}
    /\ pc' = "done"
    /\ result' = ResultErr("DatabaseConnection")
    /\ UNCHANGED <<lockfile, cache_location, table, temp_packages, packages,
                   cached, in_progress, pkgs, table0, fetched, failures,
                   url_vars, parse_vars, batch_vars, render_vars, norm_vars, text_vars>>

\* a queue of CONCURRENT_FETCH_REQUESTS futures still takes one more
HasRoom_one_more(len) == len <= CONCURRENT_FETCH_REQUESTS

\* buffer_unordered(CONCURRENT_FETCH_REQUESTS) pushes a future while its
\* queue holds fewer futures than the ceiling
HasRoom(len) == len < CONCURRENT_FETCH_REQUESTS

\* the futures are polled only when the queue is full
Filled_only_when_full(len, stream_empty) == ~HasRoom(len)

\* buffer_unordered polls its futures once its queue is full or the stream
\* is exhausted
Filled(len, stream_empty) == ~HasRoom(len) \/ stream_empty

\* buffer_unordered pulls the next package and pushes its future
Admit ==
    /\ pc = "fetch"
    /\ HasRoom(Cardinality(in_progress))
    /\ \E p \in packages :
          /\ packages' = packages \ {p}
          /\ in_progress' = in_progress \cup {Future(p)}
    /\ UNCHANGED <<lockfile, cache_location, pc, table, temp_packages, cached,
                   pkgs, result, table0, fetched, failures, url_vars, parse_vars, batch_vars, render_vars, norm_vars, text_vars>>

\* the first poll of a future: the url is resolved and the fetch is started,
\* or the future returns the error of to_npm_url, which try_collect returns
PollNew ==
    /\ pc = "fetch"
    /\ Filled(Cardinality(in_progress), packages = {})
    /\ \E f \in in_progress :
          /\ f.state = "new"
          /\ LET url == Package_to_npm_url(f.pkg)
             IN  IF url.ok
                 THEN /\ in_progress' = (in_progress \ {f}) \cup
                            {[f EXCEPT !.state = "fetching", !.url = url.val]}
                      /\ fetched' = fetched \cup {f.pkg.id}
                      /\ UNCHANGED <<pc, result, failures>>
                 ELSE /\ failures' = Append(failures,
                            [name |-> f.pkg.id, err |-> url.err])
                      /\ in_progress' = {}
                      /\ pc' = "done"
                      /\ result' = ResultErr(url.err)
                      /\ UNCHANGED fetched
    /\ UNCHANGED <<lockfile, cache_location, table, temp_packages, packages,
                   cached, pkgs, table0, url_vars, parse_vars, batch_vars, render_vars, norm_vars, text_vars>>

\* a fetch returns Ok and its row is written to the cache at once
FetchOkWriteThrough ==
    /\ pc = "fetch"
    /\ Filled(Cardinality(in_progress), packages = {})
    /\ \E f \in in_progress, hash \in Hashes :
          /\ f.state = "fetching"
          /\ in_progress' = in_progress \ {f}
          /\ pkgs' = Append(pkgs, Prefetched(f.pkg.id, f.url, hash, f.pkg.bin))
          /\ table' = IF cache_location
                      THEN table \cup {Prefetched(f.pkg.id, f.url, hash, f.pkg.bin)}
                      ELSE table
    /\ UNCHANGED <<lockfile, cache_location, pc, temp_packages, packages,
                   cached, result, table0, fetched, failures, url_vars, parse_vars, batch_vars, render_vars, norm_vars, text_vars>>

\* a fetch returns Ok: PrefetchedPackage::prefetch builds the package from the
\* hash of the tool's output, and try_collect collects it
FetchOk ==
    /\ pc = "fetch"
    /\ Filled(Cardinality(in_progress), packages = {})
    /\ \E f \in in_progress, hash \in Hashes :
          /\ f.state = "fetching"
          /\ in_progress' = in_progress \ {f}
          /\ pkgs' = Append(pkgs, Prefetched(f.pkg.id, f.url, hash, f.pkg.bin))
    /\ UNCHANGED <<lockfile, cache_location, pc, table, temp_packages, packages,
                   cached, result, table0, fetched, failures, url_vars, parse_vars, batch_vars, render_vars, norm_vars, text_vars>>

\* a failed fetch is dropped and the stream goes on
FetchFailsSkipped ==
    /\ pc = "fetch"
    /\ Filled(Cardinality(in_progress), packages = {})
    /\ \E f \in in_progress :
          /\ f.state = "fetching"
          /\ failures' = Append(failures,
                [name |-> f.pkg.id, err |-> "PrefetchStderr"])
          /\ in_progress' = in_progress \ {f}
    /\ UNCHANGED <<lockfile, cache_location, pc, table, temp_packages, packages,
                   cached, pkgs, result, table0, fetched, url_vars, parse_vars, batch_vars, render_vars, norm_vars, text_vars>>

\* a fetch returns Err: try_collect returns it and the stream is dropped
FetchFails ==
    /\ pc = "fetch"
    /\ Filled(Cardinality(in_progress), packages = {})
    /\ \E f \in in_progress :
          /\ f.state = "fetching"
          /\ failures' = Append(failures,
                [name |-> f.pkg.id, err |-> "PrefetchStderr"])
    /\ in_progress' = {}
    /\ pc' = "done"
    /\ result' = ResultErr("PrefetchStderr")
    /\ UNCHANGED <<lockfile, cache_location, table, temp_packages, packages,
                   cached, pkgs, table0, fetched, url_vars, parse_vars, batch_vars, render_vars, norm_vars, text_vars>>

\* the insert does not wait for the fetches still in flight
StreamEndEarly ==
    /\ pc = "fetch"
    /\ packages = {}
    /\ IF cache_location
       THEN pc' = "insert" /\ UNCHANGED result
       ELSE pc' = "done" /\ result' = ResultOk(pkgs)
    /\ UNCHANGED <<lockfile, cache_location, table, temp_packages, packages,
                   cached, in_progress, pkgs, table0, fetched, failures,
                   url_vars, parse_vars, batch_vars, render_vars, norm_vars, text_vars>>

\* the stream ends: without a cache the collected packages are returned
StreamEnd ==
    /\ pc = "fetch"
    /\ packages = {}
    /\ in_progress = {}
    /\ IF cache_location
       THEN pc' = "insert" /\ UNCHANGED result
       ELSE pc' = "done" /\ result' = ResultOk(pkgs)
    /\ UNCHANGED <<lockfile, cache_location, table, temp_packages, packages,
                   cached, in_progress, pkgs, table0, fetched, failures,
                   url_vars, parse_vars, batch_vars, render_vars, norm_vars, text_vars>>

\* the batched INSERT INTO packages, then cached.extend(new_pkgs)
Insert ==
    /\ pc = "insert"
    /\ table' = table \cup Range(pkgs)
    /\ pc' = "done"
    /\ result' = ResultOk(cached \o pkgs)
    /\ UNCHANGED <<lockfile, cache_location, temp_packages, packages, cached,
                   in_progress, pkgs, table0, fetched, failures,
                   url_vars, parse_vars, batch_vars, render_vars, norm_vars, text_vars>>

\* the process ends: of the state of the run only the cache file remains
Exit ==
    /\ pc = "done"
    /\ lockfile' = {} /\ cache_location' = FALSE /\ pc' = "idle"
    /\ temp_packages' = {} /\ packages' = {} /\ cached' = <<>>
    /\ in_progress' = {} /\ pkgs' = <<>> /\ result' = ResultNone
    /\ table0' = {} /\ fetched' = {} /\ failures' = <<>>
    /\ UNCHANGED <<table, url_vars, parse_vars, batch_vars, render_vars, norm_vars, text_vars>>

RunStep ==
    \/ Connect \/ CreateTemp \/ SelectCached \/ SelectUncached
    \/ CacheCallFails \/ Admit \/ PollNew \/ FetchOk \/ FetchFails
    \/ StreamEnd \/ Insert

Next == Start \/ RunStep \/ Exit

Spec == Init /\ [][Next]_vars

\* every cache call and every fetch returns, and the executor keeps polling
LiveSpec == Spec /\ WF_vars(RunStep)

----------------------------------------------------------------------------
(* fetch_uncached_packages over a batch around the ceiling: the futures are
   interchangeable, so the stream and the queue are counted *)

BatchSizes ==
    {0, 1, CONCURRENT_FETCH_REQUESTS - 1} \cup
        (CONCURRENT_FETCH_REQUESTS..(CONCURRENT_FETCH_REQUESTS + MaxOverCeiling))

InitBatch ==
    /\ stream_len \in BatchSizes
    /\ queue_new = 0 /\ queue_fetching = 0 /\ collected = 0
    /\ batch_result = "running"
    /\ UrlIdle /\ ParseIdle /\ EngineIdle /\ RenderIdle
    /\ NormIdle /\ TextIdle

\* buffer_unordered pulls the next package and pushes its future
BatchAdmit ==
    /\ batch_result = "running"
    /\ HasRoom(queue_new + queue_fetching)
    /\ stream_len > 0
    /\ stream_len' = stream_len - 1
    /\ queue_new' = queue_new + 1
    /\ UNCHANGED <<queue_fetching, collected, batch_result,
                   url_vars, parse_vars, engine_vars, render_vars, norm_vars, text_vars>>

\* the first poll of a future whose url resolves: its fetch is started
BatchPollNew ==
    /\ batch_result = "running"
    /\ Filled(queue_new + queue_fetching, stream_len = 0)
    /\ queue_new > 0
    /\ queue_new' = queue_new - 1
    /\ queue_fetching' = queue_fetching + 1
    /\ UNCHANGED <<stream_len, collected, batch_result,
                   url_vars, parse_vars, engine_vars, render_vars, norm_vars, text_vars>>

\* a fetch returns Ok and try_collect collects its package
BatchFetchOk ==
    /\ batch_result = "running"
    /\ Filled(queue_new + queue_fetching, stream_len = 0)
    /\ queue_fetching > 0
    /\ queue_fetching' = queue_fetching - 1
    /\ collected' = collected + 1
    /\ UNCHANGED <<stream_len, queue_new, batch_result,
                   url_vars, parse_vars, engine_vars, render_vars, norm_vars, text_vars>>

\* to_npm_url fails at the first poll of a future, or a fetch returns Err:
\* try_collect returns the error
BatchFails ==
    /\ batch_result = "running"
    /\ Filled(queue_new + queue_fetching, stream_len = 0)
    /\ queue_new > 0 \/ queue_fetching > 0
    /\ batch_result' = "err"
    /\ UNCHANGED <<stream_len, queue_new, queue_fetching, collected,
                   url_vars, parse_vars, engine_vars, render_vars, norm_vars, text_vars>>

\* the stream ends
BatchEnd ==
    /\ batch_result = "running"
    /\ stream_len = 0 /\ queue_new = 0 /\ queue_fetching = 0
    /\ batch_result' = "ok"
    /\ UNCHANGED <<stream_len, queue_new, queue_fetching, collected,
                   url_vars, parse_vars, engine_vars, render_vars, norm_vars, text_vars>>

NextBatch ==
    BatchAdmit \/ BatchPollNew \/ BatchFetchOk \/ BatchFails \/ BatchEnd

SpecBatch == InitBatch /\ [][NextBatch]_vars

----------------------------------------------------------------------------
(* Expression generator: DumpNixExpression *)

Count(s, c) == Cardinality({i \in 1..Len(s) : s[i] = c})

LastIdx(s, c) ==
    CHOOSE i \in 1..Len(s) : s[i] = c /\ \A j \in (i + 1)..Len(s) : s[j] # c

\* get_name_strip_version(&self).unwrap_or(&self.name)
get_name_strip_version(name) ==
    CASE Count(name, "@") = 1 -> split_once(name, "@").before
      [] Count(name, "@") = 2 -> SubSeq(name, 1, LastIdx(name, "@") - 1)
      [] OTHER -> name

Rendered(text) == [status |-> "ok", text |-> text]
RenderPanic == [status |-> "panic", text |-> <<>>]

\* the hash asserts of dump_nix_expression
HashAsserts(p) == Len(p.hash) = HashLen /\ contains(p.hash, Sha256Word)

\* impl DumpNixExpression for PrefetchedPackage: the format! of one block
dump_package(p) ==
    <<"    {\n      name = \"">> \o get_name_strip_version(p.name)
        \o <<"\";\n      path = fetchurl {\n        name = \"">> \o p.name
        \o <<"\";\n        url  = \"">> \o p.url
        \o <<"\";\n        hash = \"">> \o p.hash
        \o <<"\";\n      };\n    }">>

\* .reduce(|acc, e| acc + "\n" + &e).unwrap_or_default()
RECURSIVE JoinBlocks(_)
JoinBlocks(v) ==
    IF v = <<>> THEN <<>>
    ELSE IF Len(v) = 1 THEN dump_package(v[1])
    ELSE JoinBlocks(SubSeq(v, 1, Len(v) - 1)) \o <<"\n">> \o dump_package(v[Len(v)])

ExprHeader == <<"# This file was autogenerated ... packages = [\n">>
ExprFooter == <<"\n  ];\n ... inherit nodeModules packages;\n}">>

\* impl DumpNixExpression for Vec<PrefetchedPackage>
dump_nix_expression(v) ==
    IF \E i \in 1..Len(v) : ~HashAsserts(v[i])
    THEN RenderPanic
    ELSE Rendered(ExprHeader \o JoinBlocks(v) \o ExprFooter)

RenderNames == {<<"a", "@", "a">>, <<"@", "a", "/", "b", "@", "a">>}

RenderUniverse ==
    {Prefetched(n, to_npm_url(n).val, h, BinNone) : n \in RenderNames, h \in Hashes}

InitRender ==
    /\ \E S \in SUBSET RenderUniverse :
          /\ Cardinality(S) <= MaxRendered
          /\ vec_a \in Orders(S)
          /\ vec_b \in Orders(S)
    /\ out_a = NotRendered /\ out_b = NotRendered
    /\ UrlIdle /\ ParseIdle /\ EngineIdle /\ BatchIdle
    /\ NormIdle /\ TextIdle

\* packages.dump_nix_expression() on each of the two Vecs
Render ==
    /\ out_a = NotRendered
    /\ out_a' = dump_nix_expression(vec_a)
    /\ out_b' = dump_nix_expression(vec_b)
    /\ UNCHANGED <<vec_a, vec_b, url_vars, parse_vars, engine_vars, batch_vars,
                   norm_vars, text_vars>>

NextRender == Render

SpecRender == InitRender /\ [][NextRender]_vars

InitUrl ==
    /\ identifier \in [variant : Variants, spec : StringsUpTo(MaxLen)]
    /\ url_result = NoCall
    /\ ParseIdle
    /\ EngineIdle
    /\ BatchIdle
    /\ RenderIdle
    /\ NormIdle
    /\ TextIdle

\* identifier.to_url()
CallToUrl ==
    /\ url_result = NoCall
    /\ url_result' = to_url(identifier)
    /\ UNCHANGED <<identifier, parse_vars, engine_vars, batch_vars, render_vars, norm_vars, text_vars>>

NextUrl == CallToUrl

SpecUrl == InitUrl /\ [][NextUrl]_vars

----------------------------------------------------------------------------
(* Claims about the identifier resolver *)

\* a package name or scope body: no '/' and no '@'
Plain(s) == ~HasChar(s, "/") /\ ~HasChar(s, "@")

\* a scope: an optional leading '@' followed by a plain, non-empty body
IsScope(s) ==
    \/ Len(s) > 0 /\ Plain(s)
    \/ Len(s) > 1 /\ s[1] = "@" /\ Plain(SubSeq(s, 2, Len(s)))

\* C9: to_url on Npm(spec) gives registry/{name}/-/{name}-{version}.tgz for
\* every unscoped name@version, and registry/{scope}/{name}/-/{name}-{version}.tgz
\* for every scoped {scope}/{name}@version, whatever the version string is: a
\* '/' counts as the scope separator only before the version-separating '@'.
C9_NpmUrlForEveryVersion ==
    (url_result # NoCall /\ identifier.variant = "Npm") =>
        LET s == identifier.spec
        IN  /\ \A i \in 1..Len(s) :
                  LET name == SubSeq(s, 1, i - 1)
                      ver == SubSeq(s, i + 1, Len(s))
                  IN  (s[i] = "@" /\ Len(name) > 0 /\ Plain(name)) =>
                          url_result = Ok(FormatUnscoped(name, ver))
            /\ \A i \in 1..Len(s) : \A k \in (i + 1)..Len(s) :
                  LET scope == SubSeq(s, 1, i - 1)
                      name == SubSeq(s, i + 1, k - 1)
                      ver == SubSeq(s, k + 1, Len(s))
                  IN  (s[i] = "/" /\ s[k] = "@" /\ IsScope(scope)
                            /\ Len(name) > 0 /\ Plain(name)) =>
                          url_result = Ok(FormatScoped(scope, name, ver))

InitParse ==
    /\ doc \in SeqsUpTo(Entries, MaxEntries)
    /\ pos = 1
    /\ parsed = <<>>
    /\ parse_result = Running
    /\ UrlIdle
    /\ EngineIdle
    /\ BatchIdle
    /\ RenderIdle
    /\ NormIdle
    /\ TextIdle

\* map.next_entry::<String, Vec<Value>>()? fails on a value that is no array
NextEntryFails ==
    /\ parse_result = Running
    /\ pos <= Len(doc)
    /\ ~doc[pos].is_array
    /\ parse_result' = Returned(Failed("invalid type: expected a sequence"))
    /\ UNCHANGED <<doc, pos, parsed, url_vars, engine_vars, batch_vars, render_vars, norm_vars, text_vars>>

\* one turn of the while let loop on an array entry
VisitEntry ==
    /\ parse_result = Running
    /\ pos <= Len(doc)
    /\ doc[pos].is_array
    /\ LET r == visit_entry(doc[pos].name, doc[pos].values)
       IN  IF r.status = "ok"
           THEN /\ parsed' = parsed \o r.pkg
                /\ pos' = pos + 1
                /\ UNCHANGED parse_result
           ELSE /\ parse_result' = Returned(r)
                /\ UNCHANGED <<pos, parsed>>
    /\ UNCHANGED <<doc, url_vars, engine_vars, batch_vars, render_vars, norm_vars, text_vars>>

\* next_entry yields None: Ok(packages)
VisitEnd ==
    /\ parse_result = Running
    /\ pos = Len(doc) + 1
    /\ parse_result' = ReturnedOk
    /\ UNCHANGED <<doc, pos, parsed, url_vars, engine_vars, batch_vars, render_vars, norm_vars, text_vars>>

NextParse == NextEntryFails \/ VisitEntry \/ VisitEnd

SpecParse == InitParse /\ [][NextParse]_vars

----------------------------------------------------------------------------
(* Claims about the lockfile deserializer *)

VariantForLen(n) ==
    CASE n = 1 -> "Workspace" [] n = 2 -> "Tarball" [] n = 3 -> "Git"
      [] n = 4 -> "Npm" [] OTHER -> "none"

\* C8: every entry is dispatched by the exact length of its array (1 Workspace,
\* 2 Tarball, 3 Git, 4 Npm); an entry of any other length makes the parse
\* fail there with an error naming its key; a successful parse holds exactly
\* one package per entry.
C8_DispatchByExactLength ==
    /\ parse_result.status \in {"running", "ok"} =>
          /\ Len(parsed) = pos - 1
          /\ \A i \in 1..(pos - 1) :
                /\ doc[i].is_array
                /\ Len(doc[i].values) \in 1..4
                /\ parsed[i].name = doc[i].name
                /\ parsed[i].identifier.variant = VariantForLen(Len(doc[i].values))
    /\ parse_result.status = "ok" => Len(parsed) = Len(doc)
    /\ (parse_result.status \in {"err", "panic"} /\ doc[pos].is_array
            /\ Len(doc[pos].values) \notin 1..4) =>
          /\ parse_result.status = "err"
          /\ parse_result.msg = InvalidPackageEntry
          /\ parse_result.key = doc[pos].name

\* the parse failed on a second entry of five values after a Git entry
C8_Witness ==
    /\ parse_result.status = "err"
    /\ pos = 2
    /\ parsed[1].identifier.variant = "Git"
    /\ Len(doc[2].values) = 5
    /\ doc[1].name # doc[2].name

----------------------------------------------------------------------------
(* Claims about the prefetch and cache engine *)

\* the indices of the result entries that carry the name n
EntriesNamed(n) == {i \in 1..Len(result.list) : result.list[i].name = n}

\* C1: with a cache configured, no fetch is ever started for a package of the
\* input whose name has a record in the cache when the run starts, and the
\* result holds, for that package, exactly the stored url, hash and binaries.
C1_CachedNeverFetched ==
    cache_location =>
        \A e \in lockfile : \A r \in table0 :
            r.name = e.id =>
                /\ e.id \notin fetched
                /\ (pc = "done" /\ result.status = "ok") =>
                      /\ Cardinality(EntriesNamed(e.id)) = 1
                      /\ \A i \in EntriesNamed(e.id) : result.list[i] = r

\* a run returned a package from a record whose binaries differ from the
\* lockfile's, next to a package it fetched
C1_Witness ==
    /\ cache_location /\ pc = "done" /\ result.status = "ok"
    /\ fetched # {}
    /\ \E e \in lockfile : \E r \in table0 :
          r.name = e.id /\ r.binaries # e.bin /\ e.id \notin fetched

\* C3: a failure of one fetch of the batch (the url resolution or the fetch)
\* makes the run return that first failure as its error, never a list, and no
\* fetch is started once a failure has been observed.
C3_FirstFailureFailsBatch ==
    /\ [](failures # <<>> =>
            /\ pc = "done"
            /\ result = ResultErr(failures[1].err)
            /\ Len(failures) = 1)
    /\ [][(failures # <<>> /\ failures' # <<>>) => fetched' = fetched]_vars

\* a fetch failed after another fetch of the batch had been collected
C3_Witness ==
    /\ pc = "done"
    /\ result.status = "err"
    /\ Len(failures) = 1
    /\ failures[1].err = "PrefetchStderr"
    /\ Len(pkgs) >= 1

\* the identities (name, identifier) of the input: the key of an entry and its
\* identifier
Identities == {<<e.key, e.id>> : e \in lockfile}

\* C4: a successful run returns exactly one PrefetchedPackage per distinct
\* identity (name, identifier) of the input, with or without a cache: entries
\* of different identities yield different result entries.
C4_OnePerIdentity ==
    (pc = "done" /\ result.status = "ok") =>
        /\ Len(result.list) = Cardinality(Identities)
        /\ \A e \in lockfile : EntriesNamed(e.id) # {}

\* the 51-character sha256- contract of a hash
ValidHash(h) == Len(h) = HashLen /\ SubSeq(h, 1, Len(Sha256Prefix)) = Sha256Prefix

\* C5: the hash of every fetch is validated against the 51-character sha256-
\* contract before it is returned or written to the cache: no row of the
\* cache and no entry of a returned list carries a hash that violates it.
C5_HashValidatedBeforeUse ==
    /\ \A r \in table : ValidHash(r.hash)
    /\ result.status = "ok" =>
          \A i \in 1..Len(result.list) : ValidHash(result.list[i].hash)

\* C7: when every fetch and every cache call returns, a run that has started
\* returns, with the result or with an error, for any number of uncached
\* packages below the ceiling, zero included.
C7_RunReturns == (pc # "idle") ~> (pc = "done")

\* a run over fewer packages than the ceiling fetched them and returned
C7_Witness ==
    /\ pc = "done"
    /\ result.status = "ok"
    /\ fetched # {}
    /\ Cardinality(lockfile) < CONCURRENT_FETCH_REQUESTS

----------------------------------------------------------------------------
(* Claims about the ceiling of concurrent fetches *)

\* C2: at every moment of fetch_uncached_packages, for batches below, at and
\* above the ceiling, at most CONCURRENT_FETCH_REQUESTS (100) fetches have been
\* started and have not completed.
C2_AtMostCeilingInFlight ==
    /\ queue_fetching <= CONCURRENT_FETCH_REQUESTS
    /\ queue_new + queue_fetching <= CONCURRENT_FETCH_REQUESTS

\* the ceiling is reached while the stream still holds packages
C2_Witness ==
    /\ queue_fetching = CONCURRENT_FETCH_REQUESTS
    /\ stream_len > 0

----------------------------------------------------------------------------
(* Claims about the expression generator *)

\* C6: the rendered text does not depend on the order of the input: two
\* orderings of the same set of hashed packages render to the same text.
C6_RenderIndependentOfOrder ==
    out_a # NotRendered => out_a = out_b

----------------------------------------------------------------------------
(* Package model: Package<Extracted>::normalize *)

\* Normalized::convert_name_to_out_path(&self.name)
convert_name_to_out_path(name) == <<"node_modules", name>>

\* self.data.binaries.normalize(&self.name)
Binaries_normalize(binaries, name) ==
    IF binaries = BinNone THEN {} ELSE {<<name, binaries>>}

NormalizeOk(p) == [ok |-> TRUE, err |-> "None", pkg |-> <<p>>]
NormalizeErr(e) == [ok |-> FALSE, err |-> e, pkg |-> <<>>]

\* the url of every variant built as an npm registry url
normalize_npm_url_only(p) ==
    LET url == to_npm_url(p.identifier.spec)
    IN  IF ~url.ok
        THEN NormalizeErr(url.err)
        ELSE NormalizeOk([out_path |-> convert_name_to_out_path(p.name),
                          url |-> url.val,
                          binaries |-> Binaries_normalize(p.binaries, p.name),
                          identifier |-> p.identifier,
                          hash |-> p.hash,
                          name |-> p.name])

\* Package<Extracted>::normalize(self)
normalize(p) ==
    LET url == to_url(p.identifier)
    IN  IF ~url.ok
        THEN NormalizeErr(url.err)
        ELSE NormalizeOk([out_path |-> convert_name_to_out_path(p.name),
                          url |-> url.val,
                          binaries |-> Binaries_normalize(p.binaries, p.name),
                          identifier |-> p.identifier,
                          hash |-> p.hash,
                          name |-> p.name])

InitNormalize ==
    /\ extracted \in [name : PackageNames,
                       identifier : [variant : Variants,
                                     spec : StringsUpTo(MaxSpecLen)],
                       hash : {None, Some(Sha512Str)},
                       binaries : Bins]
    /\ norm_result = NotNormalized
    /\ UrlIdle /\ ParseIdle /\ EngineIdle /\ BatchIdle /\ RenderIdle /\ TextIdle

\* extracted.normalize()
CallNormalize ==
    /\ norm_result = NotNormalized
    /\ norm_result' = normalize(extracted)
    /\ UNCHANGED <<extracted, url_vars, parse_vars, engine_vars, batch_vars,
                   render_vars, text_vars>>

NextNormalize == CallNormalize

SpecNormalize == InitNormalize /\ [][NextNormalize]_vars

----------------------------------------------------------------------------
(* Claims about the package model *)

\* impl PartialEq / Ord for Package<D>: the fields compared
PackageKey(p) == <<p.name, p.identifier>>

\* C11: normalize succeeds exactly when to_url(identifier) succeeds and
\* otherwise returns its error; on success name, identifier and hash are
\* those of the input and url is to_url(identifier), so the (name,
\* identifier) key of equality and ordering is unchanged.
C11_NormalizeFollowsToUrl ==
    norm_result # NotNormalized =>
        LET url == to_url(extracted.identifier)
        IN  /\ norm_result.ok <=> url.ok
            /\ ~url.ok => norm_result = NormalizeErr(url.err)
            /\ url.ok =>
                  LET n == norm_result.pkg[1]
                  IN  /\ n.name = extracted.name
                      /\ n.identifier = extracted.identifier
                      /\ n.hash = extracted.hash
                      /\ n.url = url.val
                      /\ PackageKey(n) = PackageKey(extracted)

\* a Git package whose identifier holds a '/' and an '@' has been normalized
C11_Witness ==
    /\ norm_result.ok
    /\ extracted.identifier.variant = "Git"
    /\ HasChar(extracted.identifier.spec, "/")
    /\ extracted.hash.some

----------------------------------------------------------------------------
(* Claims about the structural checks of the deserializer *)

\* a length-1 entry whose identifier lacks workspace:, or a length-4 entry
\* whose integrity hash lacks sha512-, everything else in it well-formed
LacksMarker(e) ==
    /\ e.is_array
    /\ \/ /\ Len(e.values) = 1
          /\ e.values[1].kind = "string"
          /\ ~contains(e.values[1].str, WorkspaceMarker)
       \/ /\ Len(e.values) = 4
          /\ e.values[1].kind = "string"
          /\ MetaDataOk(e.values[3])
          /\ e.values[4].kind = "string"
          /\ ~contains(e.values[4].str, Sha512Marker)

\* C12: a length-1 entry without workspace: and a length-4 entry whose hash
\* lacks sha512- make the parse return an error value, as every other
\* malformed entry does; the entry is not skipped and yields no package.
C12_MarkerViolationIsError ==
    \A i \in 1..Len(doc) :
        LacksMarker(doc[i]) =>
            /\ pos <= i
            /\ Len(parsed) < i
            /\ (pos = i /\ parse_result # Running) => parse_result.status = "err"

----------------------------------------------------------------------------
(* Lockfile parsing: impl FromStr for Lockfile *)

\* lockfile_version: u8
U8Max == 255

\* the lockfileVersion bun writes
SupportedLockfileVersion == 1

NoVersion == 0 - 1

\* the pieces of a lockfile text: white space, a comment, an object with
\* its lockfileVersion field (NoVersion when absent), another JSON value, or
\* text that is no JSONC
Piece(kind, version) == [kind |-> kind, version |-> version]

TextPieces ==
    {Piece("space", NoVersion), Piece("comment", NoVersion),
     Piece("string", NoVersion), Piece("junk", NoVersion)}
        \cup {Piece("object", v) :
                  v \in {NoVersion, SupportedLockfileVersion, 99, U8Max + 1}}

IsTrivia(piece) == piece.kind \in {"space", "comment"}
NotTrivia(piece) == ~IsTrivia(piece)

ParsedNone == [ok |-> TRUE, some |-> FALSE, value |-> Piece("space", NoVersion)]
ParsedSome(v) == [ok |-> TRUE, some |-> TRUE, value |-> v]
ParseError == [ok |-> FALSE, some |-> FALSE, value |-> Piece("junk", NoVersion)]

\* jsonc_parser::parse_to_serde_value(lockfile, &Default::default()):
\* Ok(None) for a text without a value, Ok(Some(value)) for one value
\* between white space and comments, a ParseError otherwise
parse_to_serde_value(t) ==
    LET rest == SelectSeq(t, NotTrivia)
    IN  IF rest = <<>> THEN ParsedNone
        ELSE IF Len(rest) = 1 /\ rest[1].kind \in {"object", "string"}
        THEN ParsedSome(rest[1])
        ELSE ParseError

ValueOk(v) == [ok |-> TRUE, err |-> "None", value |-> v]
ValueErr(e) == [ok |-> FALSE, err |-> e, value |-> Piece("junk", NoVersion)]

\* a missing value taken as Value::Null
parse_to_value_null_default(t) ==
    LET r == parse_to_serde_value(t)
    IN  IF ~r.ok THEN ValueErr("ParseJsonc")
        ELSE IF ~r.some THEN ValueOk(Piece("null", NoVersion))
        ELSE ValueOk(r.value)

\* Lockfile::parse_to_value
parse_to_value(t) ==
    LET r == parse_to_serde_value(t)
    IN  IF ~r.ok THEN ValueErr("ParseJsonc")
        ELSE IF ~r.some THEN ValueErr("NoJsoncValue")
        ELSE ValueOk(r.value)

LockfileOk(v) == [ok |-> TRUE, err |-> "None", lockfile_version |-> v]
LockfileErr(e, v) == [ok |-> FALSE, err |-> e, lockfile_version |-> v]

\* serde_json::from_value::<Lockfile>(value): an object whose
\* lockfileVersion is a u8
from_value(v) ==
    IF v.kind = "object" /\ v.version \in 0..U8Max
    THEN LockfileOk(v.version)
    ELSE LockfileErr("ParseRustType", 0)

\* impl FromStr for Lockfile
from_str(t) ==
    LET value == parse_to_value(t)
    IN  IF ~value.ok THEN LockfileErr(value.err, 0) ELSE from_value(value.value)

InitFromStr ==
    /\ lockfile_text \in SeqsUpTo(TextPieces, MaxTextLen)
    /\ from_str_result = NotParsed
    /\ UrlIdle /\ ParseIdle /\ EngineIdle /\ BatchIdle /\ RenderIdle /\ NormIdle

\* lockfile.parse::<Lockfile>()
CallFromStr ==
    /\ from_str_result = NotParsed
    /\ from_str_result' = from_str(lockfile_text)
    /\ UNCHANGED <<lockfile_text, url_vars, parse_vars, engine_vars, batch_vars,
                   render_vars, norm_vars>>

NextFromStr == CallFromStr

SpecFromStr == InitFromStr /\ [][NextFromStr]_vars

----------------------------------------------------------------------------
(* Claims about lockfile parsing *)

\* C13: a lockfile text that holds no JSON value (empty, or only white space
\* and comments) fails with NoJsoncValue, not with the JSONC parse error nor
\* the type-conversion error.
C13_EmptyTextIsNoJsoncValue ==
    (from_str_result # NotParsed
        /\ \A i \in 1..Len(lockfile_text) : IsTrivia(lockfile_text[i])) =>
        from_str_result = LockfileErr("NoJsoncValue", 0)

\* a text of white space and a comment has been parsed
C13_Witness ==
    /\ from_str_result # NotParsed
    /\ Len(lockfile_text) >= 2
    /\ \A i \in 1..Len(lockfile_text) : IsTrivia(lockfile_text[i])
    /\ \E i \in 1..Len(lockfile_text) : lockfile_text[i].kind = "comment"

\* C14: a lockfile whose lockfileVersion is not the supported one (99, say)
\* fails to parse with UnsupportedLockfileVersion carrying that value.
C14_UnsupportedVersionFails ==
    from_str_result # NotParsed =>
        \A v \in 0..U8Max :
            (SelectSeq(lockfile_text, NotTrivia) = <<Piece("object", v)>>
                /\ v # SupportedLockfileVersion) =>
                from_str_result = LockfileErr("UnsupportedLockfileVersion", v)

----------------------------------------------------------------------------
(* Claims about the cache *)

CacheLookupPhase == {"connect", "create_temp", "select_cached", "select_uncached"}

\* a step that reads or writes the cache
CacheTouched ==
    \/ table' # table
    \/ (cached' # cached /\ pc' # "idle")
    \/ (temp_packages' # temp_packages /\ pc' # "idle")

\* the lookups precede the first fetch, the table is as the run found it
\* while fetches run, and the insert follows the last fetch
CachePhases ==
    /\ (pc \in CacheLookupPhase) =>
           (fetched = {} /\ in_progress = {} /\ pkgs = <<>>)
    /\ (pc = "fetch") => (table = table0)
    /\ (pc = "insert") => (in_progress = {} /\ packages = {})

\* C15: the cache is touched only outside the fetch phase: every lookup
\* happens before the first fetch starts, the one batched insert happens
\* after the last fetch has finished, and no cache read or write happens
\* while a fetch is in flight.
C15_CacheOutsideFetchPhase ==
    /\ []CachePhases
    /\ [][CacheTouched =>
            /\ pc # "fetch" /\ in_progress = {} /\ in_progress' = {}
            /\ (table' # table) => (pc = "insert" /\ table = table0)]_vars

\* the insert of a run with a cache is reached after two fetches
C15_Witness ==
    /\ cache_location
    /\ pc = "insert"
    /\ Len(pkgs) = 2
    /\ Cardinality(fetched) = 2

NamesOf(rows) == {r.name : r \in rows}

CountName(q, n) == Cardinality({i \in 1..Len(q) : q[i].name = n})

\* C16: after any sequence of runs with a cache the packages table holds at
\* most one record for a name: a run inserts only names that had no record
\* at lookup time, and each of them once.
C16_OneRecordPerName ==
    /\ [](\A r1, r2 \in table : r1.name = r2.name => r1 = r2)
    /\ [][\A r \in table' \ table :
              /\ r.name \notin NamesOf(table)
              /\ r.name \in select_uncached_names(table, temp_packages)
              /\ CountName(pkgs, r.name) = 1]_vars

\* a second run has added a record to the one left by an earlier run
C16_Witness ==
    /\ pc = "done"
    /\ Cardinality(table0) = 1
    /\ Cardinality(table) = 2
    /\ Cardinality(NamesOf(table)) = 2

\* C17: a run with a cache that ends in a fetch failure leaves the packages
\* table exactly as it was before the run, and no run changes or removes a
\* record that was there before it.
C17_FailedRunLeavesCache ==
    pc # "idle" =>
        /\ table0 \subseteq table
        /\ (pc = "done" /\ result.status = "err") => (table = table0)

\* a run over a cache that held a record fetched a package and then failed
C17_Witness ==
    /\ cache_location
    /\ pc = "done"
    /\ result.status = "err"
    /\ failures # <<>>
    /\ Len(pkgs) >= 1
    /\ table0 # {}

====
